---- MODULE Spec2Model ----
(***************************************************************************)
(* A model of rust-canvas-mcp: the Canvas configuration (config.rs), the   *)
(* HTTP client and its classification of responses (client.rs, error.rs),  *)
(* the MCP handshake (server.rs) and the start-up paths of main.rs.        *)
(*                                                                         *)
(* Strings are sequences of one-character strings, so that starts_with,    *)
(* ends_with, trimming, format! and chars().take(n) are computed as the    *)
(* code computes them.  Option<T> is a sequence of at most one element:    *)
(* None is << >> and Some(x) is <<x>>.                                     *)
(***************************************************************************)
EXTENDS Integers, Sequences, FiniteSets, TLC

VARIABLES
    config,     \* Option<CanvasConfig>: the configuration built so far
    lastErr,    \* Option<CanvasError>: the error of the last failed construction
    client,     \* Option<CanvasClient>: the stand-alone client of run_connection_test
    server,     \* Option<CanvasServer>
    calls,      \* caller -> the client call that caller is awaiting
    ret,        \* what the last completed client call returned, and to what response
    infos,      \* the set of distinct values get_info has returned
    pc,         \* position of main / run_connection_test
    fin,        \* input of the pure URL functions under check
    fout        \* their outputs

vars == <<config, lastErr, client, server, calls, ret, infos, pc, fin, fout>>

-----------------------------------------------------------------------------
(* Bounds *)

\* Number of concurrent callers of one client.
NumCallers == 2
\* Length of the tails appended to a host when enumerating base URLs.
MaxSegs == 2
\* How far the long response bodies run past the preview length.
Overrun == 1

-----------------------------------------------------------------------------
(* String literals of the source *)

S_http == <<"h", "t", "t", "p", ":", "/", "/">>
S_https == <<"h", "t", "t", "p", "s", ":", "/", "/">>
S_api_v1_slash == <<"/", "a", "p", "i", "/", "v", "1">>
S_api_v1 == <<"a", "p", "i", "/", "v", "1">>
S_Bearer == <<"B", "e", "a", "r", "e", "r", " ">>
S_Forbidden == <<"F", "o", "r", "b", "i", "d", "d", "e", "n", ":", " ">>
S_RateLimitExceeded == <<"R", "a", "t", "e", " ", "l", "i", "m", "i", "t", " ", "e", "x", "c", "e", "e", "d", "e", "d", ":", " ">>
S_FailedToParse == <<"F", "a", "i", "l", "e", "d", " ", "t", "o", " ", "p", "a", "r", "s", "e", " ", "C", "a", "n", "v", "a", "s", " ", "A", "P", "I", " ", "r", "e", "s", "p", "o", "n", "s", "e", ":", " ">>
S_Response == <<".", " ", "R", "e", "s", "p", "o", "n", "s", "e", ":", " ">>
S_InvalidToken == <<"I", "n", "v", "a", "l", "i", "d", " ", "A", "P", "I", " ", "t", "o", "k", "e", "n", ":", " ">>
S_TokenRequired == <<"C", "A", "N", "V", "A", "S", "_", "A", "P", "I", "_", "T", "O", "K", "E", "N", " ", "e", "n", "v", "i", "r", "o", "n", "m", "e", "n", "t", " ", "v", "a", "r", "i", "a", "b", "l", "e", " ", "i", "s", " ", "r", "e", "q", "u", "i", "r", "e", "d">>
S_UrlRequired == <<"C", "A", "N", "V", "A", "S", "_", "A", "P", "I", "_", "U", "R", "L", " ", "e", "n", "v", "i", "r", "o", "n", "m", "e", "n", "t", " ", "v", "a", "r", "i", "a", "b", "l", "e", " ", "i", "s", " ", "r", "e", "q", "u", "i", "r", "e", "d">>
S_UrlScheme == <<"C", "A", "N", "V", "A", "S", "_", "A", "P", "I", "_", "U", "R", "L", " ", "m", "u", "s", "t", " ", "s", "t", "a", "r", "t", " ", "w", "i", "t", "h", " ", "h", "t", "t", "p", ":", "/", "/", " ", "o", "r", " ", "h", "t", "t", "p", "s", ":", "/", "/">>
S_UnknownError == <<"U", "n", "k", "n", "o", "w", "n", " ", "e", "r", "r", "o", "r">>
S_NotSpecified == <<"N", "o", "t", " ", "s", "p", "e", "c", "i", "f", "i", "e", "d">>
S_message == <<"m", "e", "s", "s", "a", "g", "e">>
S_error == <<"e", "r", "r", "o", "r">>
S_name == <<"r", "u", "s", "t", "-", "c", "a", "n", "v", "a", "s", "-", "m", "c", "p">>
S_users_self == <<"/", "u", "s", "e", "r", "s", "/", "s", "e", "l", "f">>
S_instr1 == <<"C", "a", "n", "v", "a", "s", " ", "L", "M", "S", " ", "M", "C", "P", " ", "S", "e", "r", "v", "e", "r", "\n", "I", "n", "s", "t", "i", "t", "u", "t", "i", "o", "n", ":", " ">>
S_instr2 == <<"\n", "A", "P", "I", " ", "U", "R", "L", ":", " ">>
S_instr3 == <<"\n", "\n", "T", "h", "i", "s", " ", "s", "e", "r", "v", "e", "r", " ", "p", "r", "o", "v", "i", "d", "e", "s", " ", "t", "o", "o", "l", "s", " ", "f", "o", "r", " ", "i", "n", "t", "e", "r", "a", "c", "t", "i", "n", "g", " ", "w", "i", "t", "h", " ", "C", "a", "n", "v", "a", "s", " ", "L", "M", "S", ".", "\n", "C", "o", "r", "e", " ", "t", "o", "o", "l", "s", " ", "w", "i", "l", "l", " ", "b", "e", " ", "i", "m", "p", "l", "e", "m", "e", "n", "t", "e", "d", " ", "i", "n", " ", "P", "h", "a", "s", "e", " ", "3", ".">>

-----------------------------------------------------------------------------
(* Option and Result *)

None == << >>
Some(x) == <<x>>
IsSome(o) == Len(o) = 1
Unwrap(o) == o[1]

\* CanvasError: the variant, the status of Api (0 otherwise) and the message.
CanvasError(kind, status, message) ==
    [kind |-> kind, status |-> status, message |-> message]
NoError == CanvasError("", 0, << >>)

Ok(v) == [ok |-> TRUE, v |-> <<v>>, err |-> NoError]
Err(e) == [ok |-> FALSE, v |-> << >>, err |-> e]

-----------------------------------------------------------------------------
(* str methods *)

starts_with(s, p) == Len(s) >= Len(p) /\ SubSeq(s, 1, Len(p)) = p
ends_with(s, p) == Len(s) >= Len(p) /\ SubSeq(s, Len(s) - Len(p) + 1, Len(s)) = p

\* s without the run of c's that ends it
trim_end_matches(s, c) ==
    LET n == CHOOSE k \in 0..Len(s) :
                 /\ k = 0 \/ s[k] # c
                 /\ \A m \in (k + 1)..Len(s) : s[m] = c
    IN  SubSeq(s, 1, n)

\* s without the run of c's that starts it
trim_start_matches(s, c) ==
    LET n == CHOOSE k \in 1..(Len(s) + 1) :
                 /\ k = Len(s) + 1 \/ s[k] # c
                 /\ \A m \in 1..(k - 1) : s[m] = c
    IN  SubSeq(s, n, Len(s))

\* chars().take(n).collect::<String>()
take(s, n) == SubSeq(s, 1, IF Len(s) < n THEN Len(s) ELSE n)

\* whether p occurs in s as a contiguous run of characters
contains(s, p) ==
    \E i \in 1..(Len(s) - Len(p) + 1) : SubSeq(s, i, i + Len(p) - 1) = p

-----------------------------------------------------------------------------
(* config.rs *)

\* str::parse::<bool>(): only "true" and "false" parse.
parse_bool(s) ==
    IF s = <<"t", "r", "u", "e">> THEN Some(TRUE) ELSE IF s = <<"f", "a", "l", "s", "e">> THEN Some(FALSE) ELSE None

\* env::var(..).unwrap_or_else(|_| "false").parse::<bool>().unwrap_or(false)
env_flag(v) ==
    LET text == IF IsSome(v) THEN Unwrap(v) ELSE <<"f", "a", "l", "s", "e">>
        parsed == parse_bool(text)
    IN  IF IsSome(parsed) THEN Unwrap(parsed) ELSE FALSE

\* "Ensure API URL ends with /api/v1", as from_env does it.
from_env_api_url(api_url) ==
    IF ends_with(api_url, S_api_v1_slash) THEN api_url
    ELSE IF ends_with(api_url, <<"/">>) THEN api_url \o S_api_v1
    ELSE api_url \o <<"/">> \o S_api_v1

\* new_api_url without its first branch: the suffix is appended to every URL
new_api_url_always_append(api_url) ==
    IF ends_with(api_url, <<"/">>) THEN api_url \o S_api_v1
    ELSE api_url \o <<"/">> \o S_api_v1

\* "Normalize API URL to ensure it ends with /api/v1", as CanvasConfig::new does it.
new_api_url(api_url) ==
    IF ends_with(api_url, S_api_v1_slash) THEN api_url
    ELSE IF ends_with(api_url, <<"/">>) THEN api_url \o S_api_v1
    ELSE api_url \o <<"/">> \o S_api_v1

CanvasConfig(api_token, api_url, institution_name, timezone, anonymize, debug) ==
    [api_token |-> api_token, api_url |-> api_url,
     institution_name |-> institution_name, timezone |-> timezone,
     enable_anonymization |-> anonymize, debug |-> debug]

\* CanvasConfig::from_env, on the environment env (variable -> Option<String>)
\* as it is once dotenv() has loaded the .env file.
from_env(env) ==
    IF ~IsSome(env.CANVAS_API_TOKEN)
    THEN Err(CanvasError("Config", 0, S_TokenRequired))
    ELSE IF ~IsSome(env.CANVAS_API_URL)
    THEN Err(CanvasError("Config", 0, S_UrlRequired))
    ELSE LET api_url == Unwrap(env.CANVAS_API_URL) IN
         IF ~starts_with(api_url, S_http) /\ ~starts_with(api_url, S_https)
         THEN Err(CanvasError("Config", 0, S_UrlScheme))
         ELSE Ok(CanvasConfig(Unwrap(env.CANVAS_API_TOKEN),
                              from_env_api_url(api_url),
                              env.INSTITUTION_NAME, env.TIMEZONE,
                              env_flag(env.ENABLE_DATA_ANONYMIZATION),
                              env_flag(env.DEBUG)))

\* CanvasConfig::new
CanvasConfig_new(api_token, api_url) ==
    CanvasConfig(api_token, new_api_url(api_url), None, None, FALSE, FALSE)

-----------------------------------------------------------------------------
(* client.rs: construction and URL building *)

\* Client::builder() settings, in seconds and connections.
REQUEST_TIMEOUT == 30
CONNECT_TIMEOUT == 10
POOL_IDLE_TIMEOUT == 90
POOL_MAX_IDLE_PER_HOST == 10

\* HeaderValue::from_str accepts the visible ASCII characters, space and tab;
\* of the characters the model's tokens use, line breaks are the ones refused.
header_char_ok(c) == c \notin {"\n", "\r"}
HeaderValue_from_str(s) ==
    IF \A i \in 1..Len(s) : header_char_ok(s[i])
    THEN Ok(s)
    ELSE Err(CanvasError("InvalidHeaderValue", 0, <<"f", "a", "i", "l", "e", "d", " ", "t", "o", " ", "p", "a", "r", "s", "e", " ", "h", "e", "a", "d", "e", "r", " ", "v", "a", "l", "u", "e">>))

\* CanvasClient::new without .timeout() and .connect_timeout()
CanvasClient_new_no_timeout(cfg) ==
    LET auth_value == S_Bearer \o cfg.api_token
        header == HeaderValue_from_str(auth_value)
    IN  IF ~header.ok
        THEN Err(CanvasError("Config", 0, S_InvalidToken \o header.err.message))
        ELSE Ok([authorization |-> Unwrap(header.v),
                 user_agent |-> <<"r", "u", "s", "t", "-", "c", "a", "n", "v", "a", "s", "-", "m", "c", "p", "/", "0", ".", "1", ".", "0">>,
                 timeout |-> 0,
                 connect_timeout |-> 0,
                 pool_idle_timeout |-> POOL_IDLE_TIMEOUT,
                 pool_max_idle_per_host |-> POOL_MAX_IDLE_PER_HOST,
                 config |-> cfg])

\* CanvasClient::new.  Client::builder().build() is taken to succeed: it fails
\* only when the TLS backend of the build cannot be initialised.
CanvasClient_new(cfg) ==
    LET auth_value == S_Bearer \o cfg.api_token
        header == HeaderValue_from_str(auth_value)
    IN  IF ~header.ok
        THEN Err(CanvasError("Config", 0, S_InvalidToken \o header.err.message))
        ELSE Ok([authorization |-> Unwrap(header.v),
                 user_agent |-> <<"r", "u", "s", "t", "-", "c", "a", "n", "v", "a", "s", "-", "m", "c", "p", "/", "0", ".", "1", ".", "0">>,
                 timeout |-> REQUEST_TIMEOUT,
                 connect_timeout |-> CONNECT_TIMEOUT,
                 pool_idle_timeout |-> POOL_IDLE_TIMEOUT,
                 pool_max_idle_per_host |-> POOL_MAX_IDLE_PER_HOST,
                 config |-> cfg])

\* CanvasClient::base_url
base_url(self) == self.config.api_url

\* build_url that keeps the leading '/' of the path
build_url_no_trim(self, path) ==
    trim_end_matches(self.config.api_url, "/") \o <<"/">> \o path

\* CanvasClient::build_url
build_url(self, path) ==
    LET base == trim_end_matches(self.config.api_url, "/")
        p == trim_start_matches(path, "/")
    IN  base \o <<"/">> \o p

-----------------------------------------------------------------------------
(* server.rs *)

\* CanvasServer::new
CanvasServer_new(cfg) ==
    LET c == CanvasClient_new(cfg)
    IN  IF c.ok THEN Ok([client |-> Unwrap(c.v), config |-> cfg]) ELSE Err(c.err)

\* env!("CARGO_PKG_VERSION"): the version the user agent of client.rs repeats.
CARGO_PKG_VERSION == <<"0", ".", "1", ".", "0">>

\* get_info that reports the requests in flight in its instructions
get_info_counting(self) ==
    [protocol_version |-> "2024-11-05",
     capabilities |-> [tools |-> TRUE],
     server_info |-> [name |-> S_name, version |-> CARGO_PKG_VERSION],
     instructions |->
        Some(S_instr1
             \o (IF IsSome(self.config.institution_name)
                 THEN Unwrap(self.config.institution_name)
                 ELSE S_NotSpecified)
             \o S_instr2 \o self.config.api_url \o S_instr3
             \o (IF \E c \in DOMAIN calls : calls[c].phase = "inflight"
                 THEN <<"\n", "B", "u", "s", "y">> ELSE <<"\n", "I", "d", "l", "e">>))]

\* ServerHandler::get_info
get_info(self) ==
    [protocol_version |-> "2024-11-05",
     capabilities |-> [tools |-> TRUE],
     server_info |-> [name |-> S_name, version |-> CARGO_PKG_VERSION],
     instructions |->
        Some(S_instr1
             \o (IF IsSome(self.config.institution_name)
                 THEN Unwrap(self.config.institution_name)
                 ELSE S_NotSpecified)
             \o S_instr2 \o self.config.api_url \o S_instr3)]

-----------------------------------------------------------------------------
(* serde_json, on the JSON texts the model's responses carry: one value,    *)
(* either a string, an unsigned integer, null, true, false, or an object    *)
(* whose members have such values, with optional white space.  Strings      *)
(* hold no escapes.  Error messages are serde_json's without the trailing   *)
(* "at line L column C".                                                    *)

JsonValue(t, s, m) == [t |-> t, s |-> s, m |-> m]
JsonNull == JsonValue("null", << >>, << >>)

Parsed(v, pos) == [ok |-> TRUE, v |-> v, pos |-> pos, e |-> << >>]
ParseError(e) == [ok |-> FALSE, v |-> JsonNull, pos |-> 0, e |-> e]

is_ws(c) == c \in {" ", "\n", "\t", "\r"}
is_digit(c) == c \in {"0", "1", "2", "3", "4", "5", "6", "7", "8", "9"}

\* index of the first character at or after i that is no white space,
\* Len(t) + 1 when there is none
skip_ws(t, i) ==
    IF i > Len(t) THEN i
    ELSE CHOOSE k \in i..(Len(t) + 1) :
             /\ k = Len(t) + 1 \/ ~is_ws(t[k])
             /\ \A m \in i..(k - 1) : is_ws(t[m])

\* index of the first '"' at or after j, 0 when there is none
find_quote(t, j) ==
    IF \A k \in j..Len(t) : t[k] # "\"" THEN 0
    ELSE CHOOSE k \in j..Len(t) :
             /\ t[k] = "\""
             /\ \A m \in j..(k - 1) : t[m] # "\""

\* index after the run of digits starting at j
digits_end(t, j) ==
    IF j > Len(t) THEN j
    ELSE CHOOSE k \in j..(Len(t) + 1) :
             /\ k = Len(t) + 1 \/ ~is_digit(t[k])
             /\ \A m \in j..(k - 1) : is_digit(t[m])

\* whether the characters of p stand in t from index i on
has_at(t, i, p) == i + Len(p) - 1 <= Len(t) /\ SubSeq(t, i, i + Len(p) - 1) = p

\* t[i] is '"'
parse_string(t, i) ==
    LET j == find_quote(t, i + 1)
    IN  IF j = 0 THEN ParseError(<<"E", "O", "F", " ", "w", "h", "i", "l", "e", " ", "p", "a", "r", "s", "i", "n", "g", " ", "a", " ", "s", "t", "r", "i", "n", "g">>)
        ELSE Parsed(JsonValue("str", SubSeq(t, i + 1, j - 1), << >>), j + 1)

\* a string, number or literal starting at i
parse_number(t, i, e) == Parsed(JsonValue("num", SubSeq(t, i, e - 1), << >>), e)
parse_scalar(t, i) ==
    IF i > Len(t) THEN ParseError(<<"E", "O", "F", " ", "w", "h", "i", "l", "e", " ", "p", "a", "r", "s", "i", "n", "g", " ", "a", " ", "v", "a", "l", "u", "e">>)
    ELSE IF t[i] = "\"" THEN parse_string(t, i)
    ELSE IF is_digit(t[i]) THEN parse_number(t, i, digits_end(t, i))
    ELSE IF has_at(t, i, <<"n", "u", "l", "l">>) THEN Parsed(JsonNull, i + 4)
    ELSE IF has_at(t, i, <<"t", "r", "u", "e">>) THEN Parsed(JsonValue("bool", <<"t", "r", "u", "e">>, << >>), i + 4)
    ELSE IF has_at(t, i, <<"f", "a", "l", "s", "e">>) THEN Parsed(JsonValue("bool", <<"f", "a", "l", "s", "e">>, << >>), i + 5)
    ELSE ParseError(<<"e", "x", "p", "e", "c", "t", "e", "d", " ", "v", "a", "l", "u", "e">>)

\* the members of an object from i0 (after '{' or ','), acc the members so
\* far; each step of the parse takes what the step before it found
RECURSIVE parse_members(_, _, _)
\* n: where the text goes on after a member
member_next(t, n, members) ==
    IF n > Len(t) THEN ParseError(<<"E", "O", "F", " ", "w", "h", "i", "l", "e", " ", "p", "a", "r", "s", "i", "n", "g", " ", "a", "n", " ", "o", "b", "j", "e", "c", "t">>)
    ELSE IF t[n] = "," THEN parse_members(t, n + 1, members)
    ELSE IF t[n] = "}" THEN Parsed(JsonValue("obj", << >>, members), n + 1)
    ELSE ParseError(<<"e", "x", "p", "e", "c", "t", "e", "d", " ", "c", "o", "m", "m", "a", " ", "o", "r", " ", "c", "l", "o", "s", "i", "n", "g", " ", "b", "r", "a", "c", "e">>)
\* v: the parse of the member's value
member_value(t, k, v, acc) ==
    IF ~v.ok THEN v
    ELSE member_next(t, skip_ws(t, v.pos), Append(acc, [k |-> k.v.s, v |-> v.v]))
\* c: where the ':' must stand
member_colon(t, k, c, acc) ==
    IF c > Len(t) THEN ParseError(<<"E", "O", "F", " ", "w", "h", "i", "l", "e", " ", "p", "a", "r", "s", "i", "n", "g", " ", "a", "n", " ", "o", "b", "j", "e", "c", "t">>)
    ELSE IF t[c] # ":" THEN ParseError(<<"e", "x", "p", "e", "c", "t", "e", "d", " ", "c", "o", "l", "o", "n">>)
    ELSE member_value(t, k, parse_scalar(t, skip_ws(t, c + 1)), acc)
\* k: the parse of the member's key
member_key(t, k, acc) ==
    IF ~k.ok THEN k ELSE member_colon(t, k, skip_ws(t, k.pos), acc)
\* i: where the member or the closing brace must stand
member_at(t, i, acc) ==
    IF i > Len(t) THEN ParseError(<<"E", "O", "F", " ", "w", "h", "i", "l", "e", " ", "p", "a", "r", "s", "i", "n", "g", " ", "a", "n", " ", "o", "b", "j", "e", "c", "t">>)
    ELSE IF t[i] = "}" /\ acc = << >> THEN Parsed(JsonValue("obj", << >>, acc), i + 1)
    ELSE IF t[i] # "\"" THEN ParseError(<<"k", "e", "y", " ", "m", "u", "s", "t", " ", "b", "e", " ", "a", " ", "s", "t", "r", "i", "n", "g">>)
    ELSE member_key(t, parse_string(t, i), acc)
parse_members(t, i0, acc) == member_at(t, skip_ws(t, i0), acc)

\* the value starting at i, the first character that is no white space
parse_value(t, i) ==
    IF i <= Len(t) /\ t[i] = "{" THEN parse_members(t, i + 1, << >>)
    ELSE parse_scalar(t, i)
\* nothing but white space may follow the value
parse_end(t, v) ==
    IF ~v.ok THEN v
    ELSE IF skip_ws(t, v.pos) <= Len(t) THEN ParseError(<<"t", "r", "a", "i", "l", "i", "n", "g", " ", "c", "h", "a", "r", "a", "c", "t", "e", "r", "s">>)
    ELSE v
\* serde_json::from_str::<serde_json::Value>
parse_json(t) == parse_end(t, parse_value(t, skip_ws(t, 1)))

\* The types T a caller decodes into: serde_json::Value, a JSON object
\* (serde_json::Map<String, Value>) and String.
DecodeTypes == {"Value", "Map", "String"}

\* serde_json::from_str::<T>
deserialize(T, p) ==
    IF ~p.ok THEN Err(CanvasError("serde_json", 0, p.e))
    ELSE IF T = "Map" /\ p.v.t # "obj"
    THEN Err(CanvasError("serde_json", 0, <<"i", "n", "v", "a", "l", "i", "d", " ", "t", "y", "p", "e", ",", " ", "e", "x", "p", "e", "c", "t", "e", "d", " ", "a", " ", "m", "a", "p">>))
    ELSE IF T = "String" /\ p.v.t # "str"
    THEN Err(CanvasError("serde_json", 0, <<"i", "n", "v", "a", "l", "i", "d", " ", "t", "y", "p", "e", ",", " ", "e", "x", "p", "e", "c", "t", "e", "d", " ", "a", " ", "s", "t", "r", "i", "n", "g">>))
    ELSE Ok(p.v)
from_str(T, t) == deserialize(T, parse_json(t))

\* serde_json::Value::get(key): the member of an object, None otherwise.
RECURSIVE members_get(_, _, _)
members_get(m, key, n) ==
    IF n = 0 THEN None
    ELSE IF m[n].k = key THEN Some(m[n].v)
    ELSE members_get(m, key, n - 1)
Value_get(json, key) ==
    IF json.t = "obj" THEN members_get(json.m, key, Len(json.m)) ELSE None

\* serde_json::Value::as_str
as_str(v) == IF v.t = "str" THEN Some(v.s) ELSE None

\* Option combinators
or_else(o, other) == IF IsSome(o) THEN o ELSE other
unwrap_or(o, default) == IF IsSome(o) THEN Unwrap(o) ELSE default

-----------------------------------------------------------------------------
(* error.rs *)

\* #[from] reqwest::Error: what the ? of send().await and text().await builds
from_reqwest_error(e) == CanvasError("Http", 0, e)
CanvasError_api(status, message) == CanvasError("Api", status, message)
CanvasError_not_found(msg) == CanvasError("NotFound", 0, msg)
CanvasError_auth(msg) == CanvasError("Auth", 0, msg)
CanvasError_internal(msg) == CanvasError("Internal", 0, msg)
CanvasError_config(msg) == CanvasError("Config", 0, msg)

-----------------------------------------------------------------------------
(* client.rs: responses *)

\* A response is its status and what text().await gives: Some(body), or None
\* when the body cannot be read (the connection breaks, the timeout expires).
Response(status, body) == [status |-> status, body |-> body]

\* StatusCode::is_success
is_success(status) == 200 <= status /\ status < 300

\* StatusCode::canonical_reason, for the statuses the model's server answers
canonical_reason(status) ==
    CASE status = 200 -> Some(<<"O", "K">>)
      [] status = 204 -> Some(<<"N", "o", " ", "C", "o", "n", "t", "e", "n", "t">>)
      [] status = 304 -> Some(<<"N", "o", "t", " ", "M", "o", "d", "i", "f", "i", "e", "d">>)
      [] status = 400 -> Some(<<"B", "a", "d", " ", "R", "e", "q", "u", "e", "s", "t">>)
      [] status = 401 -> Some(<<"U", "n", "a", "u", "t", "h", "o", "r", "i", "z", "e", "d">>)
      [] status = 403 -> Some(<<"F", "o", "r", "b", "i", "d", "d", "e", "n">>)
      [] status = 404 -> Some(<<"N", "o", "t", " ", "F", "o", "u", "n", "d">>)
      [] status = 429 -> Some(<<"T", "o", "o", " ", "M", "a", "n", "y", " ", "R", "e", "q", "u", "e", "s", "t", "s">>)
      [] status = 500 -> Some(<<"I", "n", "t", "e", "r", "n", "a", "l", " ", "S", "e", "r", "v", "e", "r", " ", "E", "r", "r", "o", "r">>)
      [] OTHER -> None

\* chars().take(200) of handle_response
PREVIEW_CHARS == 200

\* json.get("message").or_else(|| json.get("error")).and_then(|v| v.as_str())
and_then_as_str(o) == IF IsSome(o) THEN as_str(Unwrap(o)) ELSE None
message_field(json) ==
    and_then_as_str(or_else(Value_get(json, S_message), Value_get(json, S_error)))
\* the message of a body: json is the body decoded as a serde_json::Value
body_message(body, json) ==
    IF json.ok THEN unwrap_or(message_field(Unwrap(json.v)), body) ELSE body
\* the message error_from_response takes from the response
error_message(response) ==
    IF IsSome(response.body)
    THEN body_message(Unwrap(response.body), from_str("Value", Unwrap(response.body)))
    ELSE unwrap_or(canonical_reason(response.status), S_UnknownError)

\* error_for_status without the arm of 403
error_for_status_no_forbidden(status, message) ==
    CASE status = 401 -> CanvasError_auth(message)
      [] status = 404 -> CanvasError_not_found(message)
      [] status = 429 -> CanvasError("RateLimit", 0, S_RateLimitExceeded \o message)
      [] OTHER -> CanvasError_api(status, message)

\* the match on the status that ends error_from_response
error_for_status(status, message) ==
    CASE status = 401 -> CanvasError_auth(message)
      [] status = 403 -> CanvasError_auth(S_Forbidden \o message)
      [] status = 404 -> CanvasError_not_found(message)
      [] status = 429 -> CanvasError("RateLimit", 0, S_RateLimitExceeded \o message)
      [] OTHER -> CanvasError_api(status, message)

\* CanvasClient::error_from_response
error_from_response(response) ==
    error_for_status(response.status, error_message(response))

\* the decoded value, or the parse error with the whole body
decoded_or_full_body(text, decoded) ==
    IF decoded.ok THEN decoded
    ELSE Err(CanvasError_internal(S_FailedToParse \o decoded.err.message
                                  \o S_Response \o text))

\* serde_json::from_str(&text).map_err(..): the decoded value, or the parse
\* error with the first 200 characters of the body
decoded_or_preview(text, decoded) ==
    IF decoded.ok THEN decoded
    ELSE Err(CanvasError_internal(S_FailedToParse \o decoded.err.message
                                  \o S_Response \o take(text, PREVIEW_CHARS)))

\* handle_response that puts the whole body in the message
handle_response_full_body(T, response) ==
    IF is_success(response.status)
    THEN IF ~IsSome(response.body)
         THEN Err(from_reqwest_error(<<"e", "r", "r", "o", "r", " ", "d", "e", "c", "o", "d", "i", "n", "g", " ", "r", "e", "s", "p", "o", "n", "s", "e", " ", "b", "o", "d", "y">>))
         ELSE decoded_or_full_body(Unwrap(response.body),
                                   from_str(T, Unwrap(response.body)))
    ELSE Err(error_from_response(response))

\* CanvasClient::handle_response::<T>
handle_response(T, response) ==
    IF is_success(response.status)
    THEN IF ~IsSome(response.body)
         THEN Err(from_reqwest_error(<<"e", "r", "r", "o", "r", " ", "d", "e", "c", "o", "d", "i", "n", "g", " ", "r", "e", "s", "p", "o", "n", "s", "e", " ", "b", "o", "d", "y">>))
         ELSE decoded_or_preview(Unwrap(response.body),
                                 from_str(T, Unwrap(response.body)))
    ELSE Err(error_from_response(response))

\* the part of CanvasClient::request that follows send().await
raw_response(response) ==
    IF is_success(response.status) THEN Ok(response)
    ELSE Err(error_from_response(response))

-----------------------------------------------------------------------------
(* Inputs *)

Callers == 1..NumCallers

Tokens == {<<"t">>, <<"t", "\n", "x">>}

\* Base URLs handed to CanvasConfig::new.
NewUrls == {<<"h", "t", "t", "p", "s", ":", "/", "/", "x", ".", "e", "d", "u">>, <<"h", "t", "t", "p", "s", ":", "/", "/", "x", ".", "e", "d", "u", "/">>, <<"h", "t", "t", "p", "s", ":", "/", "/", "x", ".", "e", "d", "u", "/", "a", "p", "i", "/", "v", "1">>, <<"f", "t", "p", ":", "/", "/", "x", ".", "e", "d", "u">>}

Env(token, url, institution, anonymize, debug) ==
    [CANVAS_API_TOKEN |-> token, CANVAS_API_URL |-> url,
     INSTITUTION_NAME |-> institution, TIMEZONE |-> None,
     ENABLE_DATA_ANONYMIZATION |-> anonymize, DEBUG |-> debug]

\* Process environments from_env reads.
Envs ==
    { Env(Some(<<"t">>), Some(<<"h", "t", "t", "p", "s", ":", "/", "/", "x", ".", "e", "d", "u">>), None, None, None),
      Env(Some(<<"t">>), Some(<<"h", "t", "t", "p", "s", ":", "/", "/", "x", ".", "e", "d", "u", "/">>), Some(<<"S", "c", "h", "o", "o", "l">>), Some(<<"y", "e", "s">>), Some(<<"t", "r", "u", "e">>)),
      Env(Some(<<"t">>), Some(<<"h", "t", "t", "p", ":", "/", "/", "x", ".", "e", "d", "u", "/", "a", "p", "i", "/", "v", "1">>), Some(<<"S", "c", "h", "o", "o", "l">>), Some(<<"y", "e", "s">>), Some(<<"t", "r", "u", "e">>)),
      Env(None, Some(<<"h", "t", "t", "p", "s", ":", "/", "/", "x", ".", "e", "d", "u">>), None, None, None),
      Env(Some(<<"t">>), None, None, None, None),
      Env(Some(<<"t">>), Some(<<"x", ".", "e", "d", "u">>), None, None, None),
      Env(Some(<<"t">>), Some(<<"f", "t", "p", ":", "/", "/", "x", ".", "e", "d", "u">>), None, None, None),
      Env(Some(<<"t", "\n", "x">>), Some(<<"h", "t", "t", "p", "s", ":", "/", "/", "x", ".", "e", "d", "u">>), None, None, None) }

\* The calls callers make: the method of CanvasClient, the HTTP method, the
\* path, whether a JSON body goes with it, and the type T decoded into.
Op(fn, method, path, json, T) ==
    [fn |-> fn, method |-> method, path |-> path, json |-> json, T |-> T]
Ops ==
    { Op("get", "GET", S_users_self, FALSE, "Value"),
      Op("post", "POST", <<"c", "o", "u", "r", "s", "e", "s">>, TRUE, "Map"),
      Op("put", "PUT", <<"/", "c", "o", "u", "r", "s", "e", "s">>, TRUE, "String"),
      Op("delete", "DELETE", <<"c", "o", "u", "r", "s", "e", "s", "/">>, FALSE, "Value"),
      Op("request", "GET", <<"/", "c", "o", "u", "r", "s", "e", "s">>, FALSE, "Response") }

\* Statuses the LMS answers with.
Statuses == {200, 204, 304, 400, 401, 403, 404, 429, 500, 599}

\* Response bodies: around the preview length, and short ones.
ExactText == [i \in 1..PREVIEW_CHARS |-> "x"]
LongText == [i \in 1..(PREVIEW_CHARS + Overrun) |-> "x"]
LongJsonString == <<"\"">> \o LongText \o <<"\"">>
Bodies ==
    { <<"{", "\"", "e", "r", "r", "o", "r", "\"", ":", " ", "\"", "t", "o", "k", "e", "n", " ", "e", "x", "p", "i", "r", "e", "d", "\"", "}">>,
      <<"{", "\"", "m", "e", "s", "s", "a", "g", "e", "\"", ":", " ", "\"", "b", "a", "d", " ", "t", "h", "i", "n", "g", "\"", "}">>,
      <<"{", "\"", "m", "e", "s", "s", "a", "g", "e", "\"", ":", " ", "\"", "m", "\"", ",", " ", "\"", "e", "r", "r", "o", "r", "\"", ":", " ", "\"", "e", "\"", "}">>,
      <<"{", "\"", "m", "e", "s", "s", "a", "g", "e", "\"", ":", " ", "5", ",", " ", "\"", "e", "r", "r", "o", "r", "\"", ":", " ", "\"", "t", "o", "k", "e", "n", " ", "e", "x", "p", "i", "r", "e", "d", "\"", "}">>,
      <<"{", "\"", "e", "r", "r", "o", "r", "s", "\"", ":", " ", "\"", "x", "\"", "}">>,
      <<"{", "\"", "i", "d", "\"", ":", "1", ",", "\"", "n", "a", "m", "e", "\"", ":", "\"", "A", "d", "a", "\"", "}">>,
      <<"p", "l", "a", "i", "n", " ", "t", "e", "x", "t", " ", "f", "a", "i", "l", "u", "r", "e">>,
      <<"\"", "q", "u", "o", "t", "e", "d", "\"">>,
      <<>>,
      ExactText, LongText, LongJsonString }

\* What reqwest reports when send().await fails before a status line.
SendErrors == {<<"e", "r", "r", "o", "r", " ", "s", "e", "n", "d", "i", "n", "g", " ", "r", "e", "q", "u", "e", "s", "t">>, <<"e", "r", "r", "o", "r", " ", "t", "r", "y", "i", "n", "g", " ", "t", "o", " ", "c", "o", "n", "n", "e", "c", "t">>}
TimedOut == <<"o", "p", "e", "r", "a", "t", "i", "o", "n", " ", "t", "i", "m", "e", "d", " ", "o", "u", "t">>

-----------------------------------------------------------------------------
(* State *)

NoOp == Op("", "", << >>, FALSE, "")
NoRequest == [method |-> "", url |-> << >>, authorization |-> << >>,
              user_agent |-> << >>, json |-> FALSE]
Idle == [phase |-> "idle", op |-> NoOp, request |-> NoRequest, sent |-> 0]

NoRet == [via |-> "none", fn |-> "", T |-> "", response |-> Response(0, None),
          result |-> Err(NoError), sent |-> 0]

Init ==
    /\ config = None
    /\ lastErr = None
    /\ client = None
    /\ server = None
    /\ calls = [c \in Callers |-> Idle]
    /\ ret = NoRet
    /\ infos = {}
    /\ pc = "lib"
    /\ fin = None
    /\ fout = None

-----------------------------------------------------------------------------
(* Construction, as a user of the library does it *)

\* CanvasConfig::from_env(), in one of the environments envs
FromEnv(envs) ==
    /\ pc = "lib" /\ config = None /\ lastErr = None
    /\ \E env \in envs :
         LET r == from_env(env) IN
         /\ config' = r.v
         /\ lastErr' = IF r.ok THEN None ELSE Some(r.err)
    /\ UNCHANGED <<client, server, calls, ret, infos, pc, fin, fout>>

\* CanvasConfig::new(api_token, api_url)
NewConfig(tokens, urls) ==
    /\ pc = "lib" /\ config = None /\ lastErr = None
    /\ \E token \in tokens, url \in urls :
         config' = Some(CanvasConfig_new(token, url))
    /\ UNCHANGED <<lastErr, client, server, calls, ret, infos, pc, fin, fout>>

\* CanvasServer::new(config)
ServerNew ==
    /\ pc = "lib" /\ IsSome(config) /\ server = None /\ lastErr = None
    /\ LET r == CanvasServer_new(Unwrap(config)) IN
         /\ server' = r.v
         /\ lastErr' = IF r.ok THEN None ELSE Some(r.err)
    /\ UNCHANGED <<config, client, calls, ret, infos, pc, fin, fout>>

-----------------------------------------------------------------------------
(* Client calls *)

\* The client a call goes through: the server's, or the stand-alone one of
\* run_connection_test.
TheClient == IF IsSome(server) THEN Some(Unwrap(server).client) ELSE client

\* outbound that builds the Authorization header anew for each call, from
\* the token and the method of the call
outbound_header_per_call(self, op) ==
    [method |-> op.method, url |-> build_url(self, op.path),
     authorization |->
         IF op.fn = "request" THEN S_Bearer \o self.config.api_token \o <<" ">>
         ELSE S_Bearer \o self.config.api_token,
     user_agent |-> self.user_agent,
     json |-> op.json]

\* self.client.<method>(&url)[.json(body)].send(): the request as it leaves,
\* with the default headers of the client
outbound(self, op) ==
    [method |-> op.method, url |-> build_url(self, op.path),
     authorization |-> self.authorization, user_agent |-> self.user_agent,
     json |-> op.json]

\* get / post / put / delete / request up to send().await
Send(c, op) ==
    /\ IsSome(TheClient)
    /\ calls[c].phase = "idle"
    /\ calls' = [calls EXCEPT ![c] =
                   [phase |-> "inflight", op |-> op,
                    request |-> outbound(Unwrap(TheClient), op),
                    sent |-> calls[c].sent + 1]]

\* what the caller gets back, and the call over
returned(call, via, response, result) ==
    [call |-> Idle,
     ret |-> [via |-> via, fn |-> call.op.fn, T |-> call.op.T,
              response |-> response, result |-> result, sent |-> call.sent]]

\* send().await? failing: the error goes to the caller through From
on_send_error(call, e) ==
    returned(call, "send_error", Response(0, None), Err(from_reqwest_error(e)))

\* on_response that sends the request again when the LMS answers 429
on_response_retry_429(call, response) ==
    IF response.status = 429
    THEN [call |-> [call EXCEPT !.sent = @ + 1], ret |-> ret]
    ELSE returned(call, "response", response,
                  IF call.op.fn = "request" THEN raw_response(response)
                  ELSE handle_response(call.op.T, response))

\* send().await giving a response: handle_response, or for request the
\* status check
on_response(call, response) ==
    returned(call, "response", response,
             IF call.op.fn = "request" THEN raw_response(response)
             ELSE handle_response(call.op.T, response))

Get(c) ==
    /\ pc = "lib"
    /\ \E op \in Ops : op.fn = "get" /\ Send(c, op)
    /\ UNCHANGED <<config, lastErr, client, server, ret, infos, pc, fin, fout>>

Post(c) ==
    /\ pc = "lib"
    /\ \E op \in Ops : op.fn = "post" /\ Send(c, op)
    /\ UNCHANGED <<config, lastErr, client, server, ret, infos, pc, fin, fout>>

Put(c) ==
    /\ pc = "lib"
    /\ \E op \in Ops : op.fn = "put" /\ Send(c, op)
    /\ UNCHANGED <<config, lastErr, client, server, ret, infos, pc, fin, fout>>

Delete(c) ==
    /\ pc = "lib"
    /\ \E op \in Ops : op.fn = "delete" /\ Send(c, op)
    /\ UNCHANGED <<config, lastErr, client, server, ret, infos, pc, fin, fout>>

Request(c) ==
    /\ pc = "lib"
    /\ \E op \in Ops : op.fn = "request" /\ Send(c, op)
    /\ UNCHANGED <<config, lastErr, client, server, ret, infos, pc, fin, fout>>

\* the network fails the request before a status line
TransportFail(c) ==
    /\ calls[c].phase = "inflight"
    /\ \E e \in SendErrors :
         LET n == on_send_error(calls[c], e) IN
         /\ calls' = [calls EXCEPT ![c] = n.call]
         /\ ret' = n.ret
    /\ UNCHANGED <<config, lastErr, client, server, infos, pc, fin, fout>>

\* timeout(30 s) / connect_timeout(10 s) of the client expiring before a
\* status line
Timeout(c) ==
    /\ calls[c].phase = "inflight"
    /\ IsSome(TheClient)
    /\ Unwrap(TheClient).timeout > 0 /\ Unwrap(TheClient).connect_timeout > 0
    /\ LET n == on_send_error(calls[c], TimedOut) IN
         /\ calls' = [calls EXCEPT ![c] = n.call]
         /\ ret' = n.ret
    /\ UNCHANGED <<config, lastErr, client, server, infos, pc, fin, fout>>

\* the LMS answers with one of statuses and one of bodies, or with a body
\* that cannot be read
Respond(c, statuses, bodies) ==
    /\ calls[c].phase = "inflight"
    /\ \E status \in statuses, body \in {None} \cup {Some(b) : b \in bodies} :
         LET n == on_response(calls[c], Response(status, body)) IN
         /\ calls' = [calls EXCEPT ![c] = n.call]
         /\ ret' = n.ret
    /\ UNCHANGED <<config, lastErr, client, server, infos, pc, fin, fout>>

-----------------------------------------------------------------------------
(* Handshake *)

\* the MCP host asks for the server's identity
GetInfo ==
    /\ pc = "lib" /\ IsSome(server)
    /\ infos' = infos \cup {get_info(Unwrap(server))}
    /\ UNCHANGED <<config, lastErr, client, server, calls, ret, pc, fin, fout>>

-----------------------------------------------------------------------------
(* Spec: concurrent callers of one server, and the handshake *)

SomeStatuses == {200, 429, 500}
SomeBodies == {<<"{", "\"", "m", "e", "s", "s", "a", "g", "e", "\"", ":", " ", "\"", "b", "a", "d", " ", "t", "h", "i", "n", "g", "\"", "}">>, <<"p", "l", "a", "i", "n", " ", "t", "e", "x", "t", " ", "f", "a", "i", "l", "u", "r", "e">>}

Next ==
    \/ FromEnv(Envs)
    \/ NewConfig(Tokens, NewUrls)
    \/ ServerNew
    \/ \E c \in Callers : Get(c)
    \/ \E c \in Callers : Post(c)
    \/ \E c \in Callers : Put(c)
    \/ \E c \in Callers : Delete(c)
    \/ \E c \in Callers : Request(c)
    \/ \E c \in Callers : TransportFail(c)
    \/ \E c \in Callers : Timeout(c)
    \/ \E c \in Callers : Respond(c, SomeStatuses, SomeBodies)
    \/ GetInfo

Spec == Init /\ [][Next]_vars

-----------------------------------------------------------------------------
(* FairSpec: concurrent callers under the timers of the transport *)

FairNext ==
    \/ NewConfig({<<"t">>}, {<<"h", "t", "t", "p", "s", ":", "/", "/", "x", ".", "e", "d", "u">>})
    \/ ServerNew
    \/ \E c \in Callers : Get(c)
    \/ \E c \in Callers : Post(c)
    \/ \E c \in Callers : Put(c)
    \/ \E c \in Callers : Delete(c)
    \/ \E c \in Callers : Request(c)
    \/ \E c \in Callers : TransportFail(c)
    \/ \E c \in Callers : Timeout(c)
    \/ \E c \in Callers : Respond(c, {200, 500}, {<<"p", "l", "a", "i", "n", " ", "t", "e", "x", "t", " ", "f", "a", "i", "l", "u", "r", "e">>})

\* The timeouts of the client are timers of the transport: once a request
\* is in flight, one of them expires unless the call has ended before.
\* Nothing obliges the network to answer or a caller to call.
FairSpec ==
    Init /\ [][FairNext]_vars /\ \A c \in Callers : WF_vars(Timeout(c))

-----------------------------------------------------------------------------
(* RespSpec: one caller, every status and body *)

RespNext ==
    \/ NewConfig({<<"t">>}, {<<"h", "t", "t", "p", "s", ":", "/", "/", "x", ".", "e", "d", "u">>})
    \/ ServerNew
    \/ Get(1)
    \/ Post(1)
    \/ Put(1)
    \/ Delete(1)
    \/ Request(1)
    \/ TransportFail(1)
    \/ Timeout(1)
    \/ Respond(1, Statuses, Bodies)

RespSpec == Init /\ [][RespNext]_vars

-----------------------------------------------------------------------------
(* main.rs: the serving path of main and run_connection_test *)

ExitStates == {"exit_ok", "exit_err", "exit_1"}

\* main, lines 10-13: the --test flag decides the path
MainStart ==
    /\ pc = "start"
    /\ pc' \in {"main_load", "test_load"}
    /\ UNCHANGED <<config, lastErr, client, server, calls, ret, infos, fin, fout>>

\* main: CanvasConfig::from_env().map_err(..)?
main_load(env) ==
    LET r == from_env(env) IN
    IF r.ok THEN [pc |-> "main_server", config |-> r.v, lastErr |-> None]
    ELSE [pc |-> "exit_err", config |-> None, lastErr |-> Some(r.err)]

MainLoad(envs) ==
    /\ pc = "main_load"
    /\ \E env \in envs :
         LET n == main_load(env) IN
         /\ pc' = n.pc /\ config' = n.config /\ lastErr' = n.lastErr
    /\ UNCHANGED <<client, server, calls, ret, infos, fin, fout>>

\* main: CanvasServer::new(config)?
MainServer ==
    /\ pc = "main_server"
    /\ LET r == CanvasServer_new(Unwrap(config)) IN
         /\ server' = r.v
         /\ lastErr' = IF r.ok THEN None ELSE Some(r.err)
         /\ pc' = IF r.ok THEN "serving" ELSE "exit_err"
    /\ UNCHANGED <<config, client, calls, ret, infos, fin, fout>>

\* rmcp::serve_server(server, io): the host's handshake is answered
Serve ==
    /\ pc = "serving"
    /\ infos' = infos \cup {get_info(Unwrap(server))}
    /\ UNCHANGED <<config, lastErr, client, server, calls, ret, pc, fin, fout>>

\* the host closes the streams and main returns Ok(())
MainDone ==
    /\ pc = "serving"
    /\ pc' = "exit_ok"
    /\ UNCHANGED <<config, lastErr, client, server, calls, ret, infos, fin, fout>>

\* test_load that reports the error and goes on with a default configuration
test_load_default(env) ==
    LET r == from_env(env) IN
    IF r.ok THEN [pc |-> "test_client", config |-> r.v, lastErr |-> None]
    ELSE [pc |-> "test_client",
          config |-> Some(CanvasConfig_new(<<"t">>, <<"h", "t", "t", "p", "s", ":", "/", "/", "c", "a", "n", "v", "a", "s", ".", "i", "n", "s", "t", "r", "u", "c", "t", "u", "r", "e", ".", "c", "o", "m">>)),
          lastErr |-> Some(r.err)]

\* run_connection_test: match CanvasConfig::from_env()
test_load(env) ==
    LET r == from_env(env) IN
    IF r.ok THEN [pc |-> "test_client", config |-> r.v, lastErr |-> None]
    ELSE [pc |-> "exit_1", config |-> None, lastErr |-> Some(r.err)]

TestLoad(envs) ==
    /\ pc = "test_load"
    /\ \E env \in envs :
         LET n == test_load(env) IN
         /\ pc' = n.pc /\ config' = n.config /\ lastErr' = n.lastErr
    /\ UNCHANGED <<client, server, calls, ret, infos, fin, fout>>

\* run_connection_test: match CanvasClient::new(Arc::new(config.clone()))
TestClient ==
    /\ pc = "test_client"
    /\ LET r == CanvasClient_new(Unwrap(config)) IN
         /\ client' = r.v
         /\ lastErr' = IF r.ok THEN None ELSE Some(r.err)
         /\ pc' = IF r.ok THEN "test_connect" ELSE "exit_1"
    /\ UNCHANGED <<config, server, calls, ret, infos, fin, fout>>

\* CanvasClient::get_current_user: self.get("/users/self")
get_current_user == Op("get", "GET", S_users_self, FALSE, "Value")

\* run_connection_test: client.get_current_user(), up to its await
TestConnect ==
    /\ pc = "test_connect"
    /\ Send(1, get_current_user)
    /\ pc' = "test_await"
    /\ UNCHANGED <<config, lastErr, client, server, ret, infos, fin, fout>>

\* run_connection_test: match on what get_current_user returned
TestConnected ==
    /\ pc = "test_await"
    /\ calls[1].phase = "idle"
    /\ pc' = IF ret.result.ok THEN "test_server" ELSE "exit_1"
    /\ lastErr' = IF ret.result.ok THEN None ELSE Some(ret.result.err)
    /\ UNCHANGED <<config, client, server, calls, ret, infos, fin, fout>>

\* run_connection_test: match CanvasServer::new(config), then get_info
TestServer ==
    /\ pc = "test_server"
    /\ LET r == CanvasServer_new(Unwrap(config)) IN
         /\ server' = r.v
         /\ lastErr' = IF r.ok THEN None ELSE Some(r.err)
         /\ infos' = IF r.ok THEN infos \cup {get_info(Unwrap(r.v))} ELSE infos
         /\ pc' = IF r.ok THEN "exit_ok" ELSE "exit_1"
    /\ UNCHANGED <<config, client, calls, ret, fin, fout>>

MainInit ==
    /\ config = None
    /\ lastErr = None
    /\ client = None
    /\ server = None
    /\ calls = [c \in Callers |-> Idle]
    /\ ret = NoRet
    /\ infos = {}
    /\ pc = "start"
    /\ fin = None
    /\ fout = None

MainNext ==
    \/ MainStart
    \/ MainLoad(Envs)
    \/ MainServer
    \/ Serve
    \/ MainDone
    \/ TestLoad(Envs)
    \/ TestClient
    \/ TestConnect
    \/ TransportFail(1)
    \/ Timeout(1)
    \/ Respond(1, Statuses, SomeBodies)
    \/ TestConnected
    \/ TestServer

MainSpec == MainInit /\ [][MainNext]_vars

-----------------------------------------------------------------------------
(* UrlSpec: the URL functions on enumerated base URLs and paths *)

Hosts == {<<"h", "t", "t", "p", "s", ":", "/", "/", "x", ".", "e", "d", "u">>, <<"h", "t", "t", "p", ":", "/", "/", "x", ".", "e", "d", "u">>, <<"x", ".", "e", "d", "u">>}
Segments == {<<"/">>, <<"a", "p", "i">>, <<"v", "1">>, <<"/", "a", "p", "i", "/", "v", "1">>, <<"x">>}

\* the concatenations of at most n segments
RECURSIVE Tails(_)
Tails(n) ==
    IF n = 0 THEN {<< >>}
    ELSE Tails(n - 1) \cup {t \o s : t \in Tails(n - 1), s \in Segments}

UrlInputs == {h \o t : h \in Hosts, t \in Tails(MaxSegs)}
Paths == {<<"/", "c", "o", "u", "r", "s", "e", "s">>, <<"c", "o", "u", "r", "s", "e", "s">>, <<"c", "o", "u", "r", "s", "e", "s", "/">>, S_users_self}

\* pc once the configuration is built: by new, by from_env, as a literal
UrlBuilt == {"url_new", "url_env", "url_literal"}

UrlInit ==
    /\ config = None
    /\ lastErr = None
    /\ client = None
    /\ server = None
    /\ calls = [c \in Callers |-> Idle]
    /\ ret = NoRet
    /\ infos = {}
    /\ pc = "url"
    /\ fin \in {Some(u) : u \in UrlInputs}
    /\ fout = None

\* CanvasConfig::new("t", url)
UrlNew ==
    /\ pc = "url" /\ config = None
    /\ config' = Some(CanvasConfig_new(<<"t">>, Unwrap(fin)))
    /\ pc' = "url_new"
    /\ UNCHANGED <<lastErr, client, server, calls, ret, infos, fin, fout>>

\* CanvasConfig::from_env() with CANVAS_API_URL = url
UrlFromEnv ==
    /\ pc = "url" /\ config = None /\ lastErr = None
    /\ LET r == from_env(Env(Some(<<"t">>), fin, None, None, None)) IN
         /\ config' = r.v
         /\ lastErr' = IF r.ok THEN None ELSE Some(r.err)
         /\ pc' = IF r.ok THEN "url_env" ELSE "url_failed"
    /\ UNCHANGED <<client, server, calls, ret, infos, fin, fout>>

\* CanvasConfig { api_url: url, .. }: the fields are public
UrlLiteral ==
    /\ pc = "url" /\ config = None
    /\ config' = Some(CanvasConfig(<<"t">>, Unwrap(fin), None, None, FALSE, FALSE))
    /\ pc' = "url_literal"
    /\ UNCHANGED <<lastErr, client, server, calls, ret, infos, fin, fout>>

\* CanvasConfig::new on the api_url of the configuration built
UrlNewAgain ==
    /\ pc \in UrlBuilt /\ IsSome(config) /\ fout = None
    /\ fout' = Some([fn |-> "new", path |-> << >>,
                     out |-> CanvasConfig_new(<<"t">>, Unwrap(config).api_url).api_url])
    /\ UNCHANGED <<config, lastErr, client, server, calls, ret, infos, pc, fin>>

\* CanvasConfig::from_env with the api_url of the configuration built
UrlFromEnvAgain ==
    /\ pc \in UrlBuilt /\ IsSome(config) /\ fout = None
    /\ LET r == from_env(Env(Some(<<"t">>), Some(Unwrap(config).api_url), None, None, None)) IN
         /\ r.ok
         /\ fout' = Some([fn |-> "from_env", path |-> << >>, out |-> Unwrap(r.v).api_url])
    /\ UNCHANGED <<config, lastErr, client, server, calls, ret, infos, pc, fin>>

\* CanvasClient::new(config) and build_url(path)
UrlBuild ==
    /\ pc \in UrlBuilt /\ IsSome(config) /\ fout = None
    /\ LET c == CanvasClient_new(Unwrap(config)) IN
         /\ c.ok
         /\ \E path \in Paths :
              fout' = Some([fn |-> "build_url", path |-> path,
                            out |-> build_url(Unwrap(c.v), path)])
    /\ UNCHANGED <<config, lastErr, client, server, calls, ret, infos, pc, fin>>

UrlNext ==
    \/ UrlNew
    \/ UrlFromEnv
    \/ UrlLiteral
    \/ UrlNewAgain
    \/ UrlFromEnvAgain
    \/ UrlBuild

UrlSpec == UrlInit /\ [][UrlNext]_vars

-----------------------------------------------------------------------------
(* Properties *)

Base == <<"h", "t", "t", "p", "s", ":", "/", "/", "x", ".", "e", "d", "u", "/", "a", "p", "i", "/", "v", "1">>
BaseSlash == <<"h", "t", "t", "p", "s", ":", "/", "/", "x", ".", "e", "d", "u", "/", "a", "p", "i", "/", "v", "1", "/">>

\* Which bodies of Bodies are JSON objects, which are JSON strings; the
\* rest is no JSON.
JsonObjects ==
    { <<"{", "\"", "e", "r", "r", "o", "r", "\"", ":", " ", "\"", "t", "o", "k", "e", "n", " ", "e", "x", "p", "i", "r", "e", "d", "\"", "}">>, <<"{", "\"", "m", "e", "s", "s", "a", "g", "e", "\"", ":", " ", "\"", "b", "a", "d", " ", "t", "h", "i", "n", "g", "\"", "}">>,
      <<"{", "\"", "m", "e", "s", "s", "a", "g", "e", "\"", ":", " ", "\"", "m", "\"", ",", " ", "\"", "e", "r", "r", "o", "r", "\"", ":", " ", "\"", "e", "\"", "}">>, <<"{", "\"", "m", "e", "s", "s", "a", "g", "e", "\"", ":", " ", "5", ",", " ", "\"", "e", "r", "r", "o", "r", "\"", ":", " ", "\"", "t", "o", "k", "e", "n", " ", "e", "x", "p", "i", "r", "e", "d", "\"", "}">>,
      <<"{", "\"", "e", "r", "r", "o", "r", "s", "\"", ":", " ", "\"", "x", "\"", "}">>, <<"{", "\"", "i", "d", "\"", ":", "1", ",", "\"", "n", "a", "m", "e", "\"", ":", "\"", "A", "d", "a", "\"", "}">> }
JsonStrings == { <<"\"", "q", "u", "o", "t", "e", "d", "\"">>, LongJsonString }
Decodes(T, body) ==
    \/ T = "Value" /\ body \in JsonObjects \cup JsonStrings
    \/ T = "Map" /\ body \in JsonObjects
    \/ T = "String" /\ body \in JsonStrings

\* the last call completed on a response with a status outside 200..299
RetNon2xx ==
    /\ ret.via = "response"
    /\ ~(ret.response.status >= 200 /\ ret.response.status <= 299)

\* the last call, one of get/post/put/delete, completed on a 2xx response
\* whose body could be read
RetDecoded ==
    /\ ret.via = "response"
    /\ ret.response.status >= 200 /\ ret.response.status <= 299
    /\ ret.fn \in {"get", "post", "put", "delete"}
    /\ IsSome(ret.response.body)

ExpectedKind(status) ==
    CASE status = 401 -> "Auth"
      [] status = 403 -> "Auth"
      [] status = 404 -> "NotFound"
      [] status = 429 -> "RateLimit"
      [] OTHER -> "Api"

\* C1: a call that gets a non-2xx status returns an error, never a value,
\* whose kind the status alone decides: Auth for 401 and 403, NotFound for
\* 404, RateLimit for 429, and for every other status Api with that status.
C1_StatusDecidesKind ==
    RetNon2xx =>
        /\ ~ret.result.ok
        /\ ret.result.v = None
        /\ ret.result.err.kind = ExpectedKind(ret.response.status)
        /\ ret.result.err.kind = "Api" => ret.result.err.status = ret.response.status

C1_Witness ==
    /\ ret.via = "response" /\ ret.fn = "request"
    /\ ret.response.status = 403
    /\ ret.result.err.kind = "Auth"

\* The message the fallback order of the specification gives: the value of
\* message when the body is a JSON object with that member, else the value
\* of error, else the body; the reason phrase when the body cannot be read.
ClaimedMessage(response) ==
    IF ~IsSome(response.body)
    THEN Unwrap(canonical_reason(response.status))
    ELSE LET body == Unwrap(response.body)
             p == parse_json(body)
         IN  IF ~p.ok THEN body
             ELSE IF IsSome(Value_get(p.v, S_message))
             THEN Unwrap(Value_get(p.v, S_message)).s
             ELSE IF IsSome(Value_get(p.v, S_error))
             THEN Unwrap(Value_get(p.v, S_error)).s
             ELSE body

\* C2: on a non-2xx response the message of the error is the value of the
\* message member of the JSON body if present, otherwise the value of its
\* error member, otherwise the raw body, and the reason phrase of the status
\* when the body cannot be read.
C2_FallbackOrder ==
    (RetNon2xx /\ (IsSome(ret.response.body) \/ IsSome(canonical_reason(ret.response.status))))
        => ret.result.err.message =
             (CASE ret.response.status = 403 -> S_Forbidden
                [] ret.response.status = 429 -> S_RateLimitExceeded
                [] OTHER -> << >>)
             \o ClaimedMessage(ret.response)

BuiltOnBase ==
    /\ IsSome(fout) /\ Unwrap(fout).fn = "build_url"
    /\ Unwrap(config).api_url \in {Base, BaseSlash}

\* C4 as stated: "/courses", "courses" and "courses/" all give
\* https://x.edu/api/v1/courses, for both forms of the base URL.
C4_AllThreePaths ==
    (BuiltOnBase /\ Unwrap(fout).path \in {<<"/", "c", "o", "u", "r", "s", "e", "s">>, <<"c", "o", "u", "r", "s", "e", "s">>, <<"c", "o", "u", "r", "s", "e", "s", "/">>})
        => Unwrap(fout).out = <<"h", "t", "t", "p", "s", ":", "/", "/", "x", ".", "e", "d", "u", "/", "a", "p", "i", "/", "v", "1", "/", "c", "o", "u", "r", "s", "e", "s">>

\* C4 as amended: for both forms of the base URL, "/courses" and "courses"
\* give https://x.edu/api/v1/courses, with one '/' between base and path, and
\* "courses/" gives https://x.edu/api/v1/courses/: the end of the path is kept.
C4_BuildUrl ==
    BuiltOnBase =>
        /\ Unwrap(fout).path \in {<<"/", "c", "o", "u", "r", "s", "e", "s">>, <<"c", "o", "u", "r", "s", "e", "s">>}
             => Unwrap(fout).out = <<"h", "t", "t", "p", "s", ":", "/", "/", "x", ".", "e", "d", "u", "/", "a", "p", "i", "/", "v", "1", "/", "c", "o", "u", "r", "s", "e", "s">>
        /\ Unwrap(fout).path = <<"c", "o", "u", "r", "s", "e", "s", "/">>
             => Unwrap(fout).out = <<"h", "t", "t", "p", "s", ":", "/", "/", "x", ".", "e", "d", "u", "/", "a", "p", "i", "/", "v", "1", "/", "c", "o", "u", "r", "s", "e", "s", "/">>

C4_Witness ==
    /\ BuiltOnBase
    /\ Unwrap(config).api_url = BaseSlash
    /\ Unwrap(fout).path = <<"/", "c", "o", "u", "r", "s", "e", "s">>
    /\ Unwrap(fout).out = <<"h", "t", "t", "p", "s", ":", "/", "/", "x", ".", "e", "d", "u", "/", "a", "p", "i", "/", "v", "1", "/", "c", "o", "u", "r", "s", "e", "s">>

\* C5: the configuration a client is bound to has a base URL that starts
\* with http:// or https:// and ends with /api/v1.
C5_BaseUrlInvariant ==
    IsSome(server) =>
        LET u == Unwrap(server).client.config.api_url
        IN  /\ starts_with(u, <<"h", "t", "t", "p", ":", "/", "/">>) \/ starts_with(u, <<"h", "t", "t", "p", "s", ":", "/", "/">>)
            /\ ends_with(u, <<"/", "a", "p", "i", "/", "v", "1">>)

\* C6: normalizing a normalized base URL, by new or by from_env, changes
\* nothing; https://x.edu and https://x.edu/ normalize to
\* https://x.edu/api/v1, which normalizes to itself.
C6_NormalizeIdempotent ==
    pc \in {"url_new", "url_env"} =>
        /\ (IsSome(fout) /\ Unwrap(fout).fn \in {"new", "from_env"})
             => Unwrap(fout).out = Unwrap(config).api_url
        /\ Unwrap(fin) \in {<<"h", "t", "t", "p", "s", ":", "/", "/", "x", ".", "e", "d", "u">>, <<"h", "t", "t", "p", "s", ":", "/", "/", "x", ".", "e", "d", "u", "/">>, Base}
             => Unwrap(config).api_url = Base

C6_Witness ==
    /\ pc = "url_new"
    /\ fin = Some(<<"h", "t", "t", "p", "s", ":", "/", "/", "x", ".", "e", "d", "u", "/">>)
    /\ IsSome(fout) /\ Unwrap(fout).fn = "new"
    /\ Unwrap(fout).out = Base

\* configuration loading or client construction has failed in this run
ConfigFailed == IsSome(lastErr) /\ Unwrap(lastErr).kind = "Config"

\* C7: once configuration loading or client construction has failed, the
\* process is at its exit, no request has been sent and no server serves,
\* on the serving path and on the --test path.
C7_ConfigErrorIsFatal ==
    ConfigFailed =>
        /\ pc \in {"exit_err", "exit_1"}
        /\ server = None
        /\ infos = {}
        /\ \A c \in Callers : calls[c] = Idle
        /\ ret = NoRet

C7_Witness ==
    /\ ConfigFailed
    /\ pc = "exit_1"
    /\ IsSome(config)
    /\ client = None

\* C8: a call whose request fails or times out before a status line returns
\* the Http error, no value and no error of a status; and every call in
\* flight ends.
C8_TransportErrorNoHang ==
    /\ [](ret.via = "send_error" =>
            /\ ~ret.result.ok
            /\ ret.result.v = None
            /\ ret.result.err.kind = "Http")
    /\ \A c \in Callers : (calls[c].phase = "inflight") ~> (calls[c].phase = "idle")

C8_Witness ==
    /\ ret.via = "send_error"
    /\ ret.result.err.message = TimedOut
    /\ ret.result.err.kind = "Http"

InfoContent(i) ==
    /\ i.protocol_version = "2024-11-05"
    /\ i.capabilities.tools
    /\ i.server_info.name = <<"r", "u", "s", "t", "-", "c", "a", "n", "v", "a", "s", "-", "m", "c", "p">>
    /\ i.server_info.version = CARGO_PKG_VERSION
    /\ IsSome(i.instructions)
    /\ contains(Unwrap(i.instructions), Unwrap(server).config.api_url)
    /\ contains(Unwrap(i.instructions),
                IF IsSome(Unwrap(server).config.institution_name)
                THEN Unwrap(Unwrap(server).config.institution_name)
                ELSE <<"N", "o", "t", " ", "s", "p", "e", "c", "i", "f", "i", "e", "d">>)

\* C10: all calls of get_info return the same content, whatever requests
\* run between or beside them, and a call of get_info leaves the
\* configuration, the server and the calls as they are.
C10_GetInfoDeterministic ==
    /\ [](/\ Cardinality(infos) <= 1
          /\ \A i \in infos : InfoContent(i))
    /\ [][infos' # infos =>
            /\ config' = config /\ server' = server
            /\ calls' = calls /\ ret' = ret]_vars

C10_Witness ==
    /\ Cardinality(infos) = 1
    /\ ret.via = "response"
    /\ \E c \in Callers : calls[c].phase = "inflight"
    /\ IsSome(Unwrap(server).config.institution_name)

-----------------------------------------------------------------------------
(* The Authorization header of the requests *)

\* the clients there are: the server's and the stand-alone one
Clients ==
    (IF IsSome(server) THEN {Unwrap(server).client} ELSE {}) \cup
    (IF IsSome(client) THEN {Unwrap(client)} ELSE {})

====
